---- MODULE Spec2Model ----
(***************************************************************************)
(* Model of src/main.py: the contact-submission handler submit_contact,    *)
(* the in-process sliding-window rate limiter is_rate_limited and the      *)
(* e-mail collaborator send_email_notification.                             *)
(*                                                                         *)
(* submit_contact is an `async def` without any await, so the event loop   *)
(* runs one handler body from its first line to its return before it       *)
(* starts another one; `running` is the request the loop is executing.     *)
(* The wall clock advances independently of the program.                   *)
(***************************************************************************)
EXTENDS Integers, Sequences, FiniteSets, TLC

\* ---- bounds of the model ------------------------------------------------
MaxLimit == 2
MaxClock == 71
MaxCalls == 4
MaxConcCalls == 2

\* ---- inputs ---------------------------------------------------------------
None == "None"
Requests == {"r1", "r2"}
Clients == {"1.2.3.4", "unknown"}
\* payload.hp: absent, empty, whitespace only, filled (as character sequences)
HpValues == {None, <<>>, <<" ">>, <<" ", "x", " ">>}
\* the instants at which the clock is observed: those of the sliding-window
\* scenario, the window boundary (60 and 61 seconds after 0) and the horizon
ClockValues == {0, 10, 20, 60, 61, MaxClock}
Limits == 0..MaxLimit
SmtpEnvs == {"unset", "configured", "badport"}

WINDOW == 60

VARIABLES
    RATE_LIMIT_PER_MIN,  \* line 152: read once from the environment
    in_flight_cap,       \* how many requests the server has in flight at once
    clock,               \* time()
    request_times,       \* line 153: defaultdict(list), a function on its keys
    running,             \* the request whose handler the event loop executes
    pc,                  \* position of each request
    client,              \* request.client.host of each request
    hp,                  \* payload.hp of each request
    now,                 \* is_rate_limited: local `now`
    times,               \* is_rate_limited: local `times`
    outcome,             \* gate outcome of each request
    created,             \* number of create_document calls made for the request
    emailed,             \* number of send_email_notification calls made
    contact_id,          \* result of create_document (None until it returns)
    email_result,        \* what send_email_notification did for the request
    response,            \* the HTTP response of the request
    log                  \* per client: the calls that reached the rate-limit step

vars == <<RATE_LIMIT_PER_MIN, in_flight_cap, clock, request_times, running, pc,
          client, hp, now, times, outcome, created, emailed, contact_id,
          email_result, response, log>>

\* ---- pure helpers -------------------------------------------------------
IsSpace(ch) == ch \in {" ", "\t", "\n"}

RECURSIVE LStrip(_)
LStrip(s) == IF s # <<>> /\ IsSpace(Head(s)) THEN LStrip(Tail(s)) ELSE s

RECURSIVE RStrip(_)
RStrip(s) ==
    IF s # <<>> /\ IsSpace(s[Len(s)]) THEN RStrip(SubSeq(s, 1, Len(s) - 1)) ELSE s

\* str.strip()
Strip(s) == RStrip(LStrip(s))

\* the honeypot test with its second operand inverted
HoneypotInverted(h) == h # None /\ h # <<>> /\ Strip(h) = <<>>

\* line 174: payload.hp and payload.hp.strip()
HoneypotTriggered(h) == h # None /\ h # <<>> /\ Strip(h) # <<>>

\* a limiter that never forgets a timestamp
PruneNever(ts, window_start) == ts

\* the comprehension with t > window_start
RECURSIVE PruneStrict(_, _)
PruneStrict(ts, window_start) ==
    IF ts = <<>> THEN <<>>
    ELSE IF Head(ts) > window_start
         THEN <<Head(ts)>> \o PruneStrict(Tail(ts), window_start)
         ELSE PruneStrict(Tail(ts), window_start)

\* line 160: [t for t in times if t >= window_start]
RECURSIVE Prune(_, _)
Prune(ts, window_start) ==
    IF ts = <<>> THEN <<>>
    ELSE IF Head(ts) >= window_start
         THEN <<Head(ts)>> \o Prune(Tail(ts), window_start)
         ELSE Prune(Tail(ts), window_start)

\* defaultdict lookup without the insertion
Stored(c) == IF c \in DOMAIN request_times THEN request_times[c] ELSE <<>>

\* a store that drops the key of an empty list
StoreTimesEvict(c, v) ==
    [k \in IF v = <<>> THEN (DOMAIN request_times) \ {c}
                      ELSE (DOMAIN request_times) \cup {c}
        |-> IF k = c THEN v ELSE request_times[k]]

\* request_times[c] = v (inserting the key when it is new)
StoreTimes(c, v) ==
    [k \in (DOMAIN request_times) \cup {c} |-> IF k = c THEN v ELSE request_times[k]]

\* one shared key for every client
ClientKeyShared(r) == "unknown"

\* line 179: the key of the rate-limit mapping
ClientKey(r) == client[r]

\* the length test with > in place of >=
OverLimitLate(ts) == Len(ts) > RATE_LIMIT_PER_MIN

\* the length test one entry too early
OverLimitEarly(ts) == Len(ts) + 1 >= RATE_LIMIT_PER_MIN

\* line 161: len(request_times[client_ip]) >= RATE_LIMIT_PER_MIN
OverLimit(ts) == Len(ts) >= RATE_LIMIT_PER_MIN

\* handlers run in parallel threads (a plain `def` handler in a thread pool)
RunnableThreaded(r) == TRUE

\* the event loop runs r only when it is not inside another handler body
Runnable(r) == running \in {None, r}

GatePcs == {"l156", "l158", "l160", "l161", "l163"}

RECURSIVE SumLen(_)
SumLen(S) == IF S = {} THEN 0
             ELSE LET c == CHOOSE x \in S : TRUE IN Len(log[c]) + SumLen(S \ {c})

\* calls that reached or will reach the rate-limit step
GateCalls ==
    SumLen(Clients)
    + Cardinality({r \in Requests : pc[r] \in GatePcs \cup {"queued"}
                                    /\ ~HoneypotTriggered(hp[r])})

CallsCap == IF in_flight_cap = 1 THEN MaxCalls ELSE MaxConcCalls

\* the HTTP responses of submit_contact
RespDropped == [status |-> 200, ok |-> TRUE, id |-> None, reason |-> None]
RespRateLimited == [status |-> 200, ok |-> FALSE, id |-> None, reason |-> "rate_limited"]
RespStored(cid) == [status |-> 200, ok |-> TRUE, id |-> cid, reason |-> None]
RespError == [status |-> 500, ok |-> None, id |-> None, reason |-> "detail"]

\* ---- initial state ------------------------------------------------------
Init ==
    /\ RATE_LIMIT_PER_MIN \in Limits
    /\ in_flight_cap = 1
    /\ clock = 0
    /\ request_times = <<>>
    /\ running = None
    /\ pc = [r \in Requests |-> "idle"]
    /\ client = [r \in Requests |-> None]
    /\ hp = [r \in Requests |-> None]
    /\ now = [r \in Requests |-> 0]
    /\ times = [r \in Requests |-> <<>>]
    /\ outcome = [r \in Requests |-> None]
    /\ created = [r \in Requests |-> 0]
    /\ emailed = [r \in Requests |-> 0]
    /\ contact_id = [r \in Requests |-> None]
    /\ email_result = [r \in Requests |-> None]
    /\ response = [r \in Requests |-> None]
    /\ log = [c \in Clients |-> <<>>]

\* ---- the clock ----------------------------------------------------------
\* time() is read once per call (line 156): an advance of the clock between
\* lines 158 and 164 cannot be observed by the call and is taken after it
Tick ==
    /\ \A r \in Requests : pc[r] \notin {"l158", "l160", "l161", "l163"}
    /\ \E t \in ClockValues :
          /\ t > clock
          /\ clock' = t
    /\ UNCHANGED <<RATE_LIMIT_PER_MIN, in_flight_cap, request_times, running, pc,
                   client, hp, now, times, outcome, created, emailed,
                   contact_id, email_result, response, log>>

\* ---- a request arrives and waits for the event loop ---------------------
\* (a new request takes the first free slot: the slots are only names)
Arrive(r) ==
    /\ pc[r] = "idle"
    /\ r = "r1" \/ pc["r1"] # "idle"
    /\ Cardinality({q \in Requests : pc[q] # "idle"}) < in_flight_cap
    /\ \E c \in Clients, h \in HpValues :
          /\ HoneypotTriggered(h) \/ GateCalls < CallsCap
          /\ client' = [client EXCEPT ![r] = c]
          /\ hp' = [hp EXCEPT ![r] = h]
    /\ pc' = [pc EXCEPT ![r] = "queued"]
    /\ UNCHANGED <<RATE_LIMIT_PER_MIN, in_flight_cap, clock, request_times, running,
                   now, times, outcome, created, emailed, contact_id,
                   email_result, response, log>>

\* ---- submit_contact, lines 174-180: honeypot, then enter is_rate_limited
Honeypot(r) ==
    /\ pc[r] = "queued"
    /\ Runnable(r)
    /\ IF HoneypotTriggered(hp[r])
       THEN /\ outcome' = [outcome EXCEPT ![r] = "Dropped"]
            /\ response' = [response EXCEPT ![r] = RespDropped]
            /\ pc' = [pc EXCEPT ![r] = "done"]
       ELSE /\ pc' = [pc EXCEPT ![r] = "l156"]
            /\ UNCHANGED <<outcome, response>>
    /\ running' = r
    /\ UNCHANGED <<RATE_LIMIT_PER_MIN, in_flight_cap, clock, request_times, client,
                   hp, now, times, created, emailed, contact_id, email_result,
                   log>>

\* ---- is_rate_limited, line 156: now = time() ----------------------------
ReadNow(r) ==
    /\ pc[r] = "l156"
    /\ Runnable(r)
    /\ now' = [now EXCEPT ![r] = clock]
    /\ pc' = [pc EXCEPT ![r] = "l158"]
    /\ UNCHANGED <<RATE_LIMIT_PER_MIN, in_flight_cap, clock, request_times, running,
                   client, hp, times, outcome, created, emailed, contact_id,
                   email_result, response, log>>

\* ---- line 158: times = request_times[client_ip] (inserts a missing key) -
ReadTimes(r) ==
    /\ pc[r] = "l158"
    /\ Runnable(r)
    /\ times' = [times EXCEPT ![r] = Stored(ClientKey(r))]
    /\ request_times' = StoreTimes(ClientKey(r), Stored(ClientKey(r)))
    /\ pc' = [pc EXCEPT ![r] = "l160"]
    /\ UNCHANGED <<RATE_LIMIT_PER_MIN, in_flight_cap, clock, running, client, hp,
                   now, outcome, created, emailed, contact_id, email_result,
                   response, log>>

\* ---- line 157 and 160: store the pruned list ----------------------------
PruneOld(r) ==
    /\ pc[r] = "l160"
    /\ Runnable(r)
    /\ request_times' = StoreTimes(ClientKey(r), Prune(times[r], now[r] - WINDOW))
    /\ pc' = [pc EXCEPT ![r] = "l161"]
    /\ UNCHANGED <<RATE_LIMIT_PER_MIN, in_flight_cap, clock, running, client, hp,
                   now, times, outcome, created, emailed, contact_id,
                   email_result, response, log>>

\* the current time appended before the limit is tested: refused calls count
CheckLimitRecordsRejected(r) ==
    /\ pc[r] = "l161"
    /\ Runnable(r)
    /\ IF OverLimit(Stored(ClientKey(r)))
       THEN /\ request_times' =
                  StoreTimes(ClientKey(r), Append(Stored(ClientKey(r)), now[r]))
            /\ outcome' = [outcome EXCEPT ![r] = "RateLimited"]
            /\ response' = [response EXCEPT ![r] = RespRateLimited]
            /\ log' = [log EXCEPT ![client[r]] =
                          Append(@, [t |-> now[r], out |-> "RateLimited"])]
            /\ pc' = [pc EXCEPT ![r] = "done"]
            /\ now' = [now EXCEPT ![r] = 0]
            /\ times' = [times EXCEPT ![r] = <<>>]
       ELSE /\ pc' = [pc EXCEPT ![r] = "l163"]
            /\ UNCHANGED <<outcome, response, log, now, times, request_times>>
    /\ UNCHANGED <<RATE_LIMIT_PER_MIN, in_flight_cap, clock, running,
                   client, hp, created, emailed, contact_id, email_result>>

\* line 183 without its return: a throttled request falls through to line 185
CheckLimitFallThrough(r) ==
    /\ pc[r] = "l161"
    /\ Runnable(r)
    /\ IF OverLimit(Stored(ClientKey(r)))
       THEN /\ outcome' = [outcome EXCEPT ![r] = "RateLimited"]
            /\ response' = [response EXCEPT ![r] = RespRateLimited]
            /\ log' = [log EXCEPT ![client[r]] =
                          Append(@, [t |-> now[r], out |-> "RateLimited"])]
            /\ pc' = [pc EXCEPT ![r] = "l188"]
            /\ now' = [now EXCEPT ![r] = 0]
            /\ times' = [times EXCEPT ![r] = <<>>]
       ELSE /\ pc' = [pc EXCEPT ![r] = "l163"]
            /\ UNCHANGED <<outcome, response, log, now, times>>
    /\ UNCHANGED <<RATE_LIMIT_PER_MIN, in_flight_cap, clock, request_times, running,
                   client, hp, created, emailed, contact_id, email_result>>

\* ---- lines 161-162, then 180-183: over the limit, answer rate_limited ---
CheckLimit(r) ==
    /\ pc[r] = "l161"
    /\ Runnable(r)
    /\ IF OverLimit(Stored(ClientKey(r)))
       THEN /\ outcome' = [outcome EXCEPT ![r] = "RateLimited"]
            /\ response' = [response EXCEPT ![r] = RespRateLimited]
            /\ log' = [log EXCEPT ![client[r]] =
                          Append(@, [t |-> now[r], out |-> "RateLimited"])]
            /\ pc' = [pc EXCEPT ![r] = "done"]
            /\ now' = [now EXCEPT ![r] = 0]
            /\ times' = [times EXCEPT ![r] = <<>>]
       ELSE /\ pc' = [pc EXCEPT ![r] = "l163"]
            /\ UNCHANGED <<outcome, response, log, now, times>>
    /\ UNCHANGED <<RATE_LIMIT_PER_MIN, in_flight_cap, clock, request_times, running,
                   client, hp, created, emailed, contact_id, email_result>>

\* ---- lines 163-164: record the admitted call ----------------------------
AppendNow(r) ==
    /\ pc[r] = "l163"
    /\ Runnable(r)
    /\ request_times' = StoreTimes(ClientKey(r), Append(Stored(ClientKey(r)), now[r]))
    /\ outcome' = [outcome EXCEPT ![r] = "Accepted"]
    /\ log' = [log EXCEPT ![client[r]] =
                  Append(@, [t |-> now[r], out |-> "Accepted"])]
    /\ now' = [now EXCEPT ![r] = 0]
    /\ times' = [times EXCEPT ![r] = <<>>]
    /\ pc' = [pc EXCEPT ![r] = "l188"]
    /\ UNCHANGED <<RATE_LIMIT_PER_MIN, in_flight_cap, clock, running, client, hp,
                   created, emailed, contact_id, email_result, response>>

\* the admission is taken back when create_document raises
CreateDocumentRollback(r) ==
    /\ pc[r] = "l188"
    /\ Runnable(r)
    /\ created' = [created EXCEPT ![r] = @ + 1]
    /\ \E ok \in BOOLEAN :
          IF ok
          THEN /\ contact_id' = [contact_id EXCEPT ![r] = "id"]
               /\ pc' = [pc EXCEPT ![r] = "l109"]
               /\ UNCHANGED <<response, request_times>>
          ELSE /\ response' = [response EXCEPT ![r] = RespError]
               /\ pc' = [pc EXCEPT ![r] = "done"]
               /\ request_times' =
                     StoreTimes(ClientKey(r),
                                SubSeq(Stored(ClientKey(r)), 1, Len(Stored(ClientKey(r))) - 1))
               /\ UNCHANGED contact_id
    /\ UNCHANGED <<RATE_LIMIT_PER_MIN, in_flight_cap, clock, running, client,
                   hp, now, times, outcome, emailed, email_result, log>>

\* create_document called again after it raised
CreateDocumentRetry(r) ==
    /\ pc[r] = "l188"
    /\ Runnable(r)
    /\ created' = [created EXCEPT ![r] = @ + 1]
    /\ \E ok \in BOOLEAN :
          IF ok
          THEN /\ contact_id' = [contact_id EXCEPT ![r] = "id"]
               /\ pc' = [pc EXCEPT ![r] = "l109"]
               /\ UNCHANGED response
          ELSE /\ created[r] < 2
               /\ UNCHANGED <<response, pc, contact_id>>
    /\ UNCHANGED <<RATE_LIMIT_PER_MIN, in_flight_cap, clock, request_times, running, client,
                   hp, now, times, outcome, emailed, email_result, log>>

\* ---- lines 185-188 (and 195-197 when create_document raises) ------------
CreateDocument(r) ==
    /\ pc[r] = "l188"
    /\ Runnable(r)
    /\ created' = [created EXCEPT ![r] = @ + 1]
    /\ \E ok \in BOOLEAN :
          IF ok
          THEN /\ contact_id' = [contact_id EXCEPT ![r] = "id"]
               /\ pc' = [pc EXCEPT ![r] = "l109"]
               /\ UNCHANGED response
          ELSE /\ response' = [response EXCEPT ![r] = RespError]
               /\ pc' = [pc EXCEPT ![r] = "done"]
               /\ UNCHANGED contact_id
    /\ UNCHANGED <<RATE_LIMIT_PER_MIN, in_flight_cap, clock, request_times, running, client,
                   hp, now, times, outcome, emailed, email_result, log>>

\* ---- line 192, send_email_notification lines 109-119 --------------------
\* int(os.getenv("SMTP_PORT", "587")) raises ValueError on a non-numeric port
EmailConfig(r) ==
    /\ pc[r] = "l109"
    /\ Runnable(r)
    /\ emailed' = [emailed EXCEPT ![r] = @ + 1]
    /\ \E smtp_env \in SmtpEnvs :
         CASE smtp_env = "badport" ->
              /\ email_result' = [email_result EXCEPT ![r] = "raised"]
              /\ response' = [response EXCEPT ![r] = RespError]
              /\ pc' = [pc EXCEPT ![r] = "done"]
         [] smtp_env = "unset" ->
              /\ email_result' = [email_result EXCEPT ![r] = "False"]
              /\ pc' = [pc EXCEPT ![r] = "l194"]
              /\ UNCHANGED response
         [] OTHER ->
              /\ pc' = [pc EXCEPT ![r] = "l121"]
              /\ UNCHANGED <<email_result, response>>
    /\ UNCHANGED <<RATE_LIMIT_PER_MIN, in_flight_cap, clock, request_times, running, client,
                   hp, now, times, outcome, created, contact_id, log>>

\* ---- lines 121-132: EmailMessage headers reject a CR or LF in a value ---
EmailMessageBuild(r) ==
    /\ pc[r] = "l121"
    /\ Runnable(r)
    /\ \E header_ok \in BOOLEAN :
          IF header_ok
          THEN /\ pc' = [pc EXCEPT ![r] = "l134"]
               /\ UNCHANGED <<email_result, response>>
          ELSE /\ email_result' = [email_result EXCEPT ![r] = "raised"]
               /\ response' = [response EXCEPT ![r] = RespError]
               /\ pc' = [pc EXCEPT ![r] = "done"]
    /\ UNCHANGED <<RATE_LIMIT_PER_MIN, in_flight_cap, clock, request_times, running, client,
                   hp, now, times, outcome, created, emailed, contact_id, log>>

\* ---- lines 134-145: the SMTP dialogue inside try/except -----------------
SmtpSend(r) ==
    /\ pc[r] = "l134"
    /\ Runnable(r)
    /\ \E sent \in BOOLEAN :
          email_result' = [email_result EXCEPT ![r] = IF sent THEN "True" ELSE "False"]
    /\ pc' = [pc EXCEPT ![r] = "l194"]
    /\ UNCHANGED <<RATE_LIMIT_PER_MIN, in_flight_cap, clock, request_times, running,
                   client, hp, now, times, outcome, created, emailed,
                   contact_id, response, log>>

\* ---- line 194: return {"ok": True, "id": contact_id} --------------------
ReturnStored(r) ==
    /\ pc[r] = "l194"
    /\ Runnable(r)
    /\ response' = [response EXCEPT ![r] = RespStored(contact_id[r])]
    /\ pc' = [pc EXCEPT ![r] = "done"]
    /\ UNCHANGED <<RATE_LIMIT_PER_MIN, in_flight_cap, clock, request_times, running, client,
                   hp, now, times, outcome, created, emailed, contact_id,
                   email_result, log>>

\* ---- the response is sent and the request is over -----------------------
Finish(r) ==
    /\ pc[r] = "done"
    /\ pc' = [pc EXCEPT ![r] = "idle"]
    /\ client' = [client EXCEPT ![r] = None]
    /\ hp' = [hp EXCEPT ![r] = None]
    /\ now' = [now EXCEPT ![r] = 0]
    /\ times' = [times EXCEPT ![r] = <<>>]
    /\ outcome' = [outcome EXCEPT ![r] = None]
    /\ created' = [created EXCEPT ![r] = 0]
    /\ emailed' = [emailed EXCEPT ![r] = 0]
    /\ contact_id' = [contact_id EXCEPT ![r] = None]
    /\ email_result' = [email_result EXCEPT ![r] = None]
    /\ response' = [response EXCEPT ![r] = None]
    /\ running' = IF running = r THEN None ELSE running
    /\ UNCHANGED <<RATE_LIMIT_PER_MIN, in_flight_cap, clock, request_times, log>>

Next ==
    \/ Tick
    \/ \E r \in Requests :
          \/ Arrive(r)
          \/ Honeypot(r)
          \/ ReadNow(r)
          \/ ReadTimes(r)
          \/ PruneOld(r)
          \/ CheckLimit(r)
          \/ AppendNow(r)
          \/ CreateDocument(r)
          \/ EmailConfig(r)
          \/ EmailMessageBuild(r)
          \/ SmtpSend(r)
          \/ ReturnStored(r)
          \/ Finish(r)

Spec == Init /\ [][Next]_vars

\* the same program with two requests in flight at once
InitConc ==
    /\ RATE_LIMIT_PER_MIN \in Limits
    /\ in_flight_cap = 2
    /\ clock = 0
    /\ request_times = <<>>
    /\ running = None
    /\ pc = [r \in Requests |-> "idle"]
    /\ client = [r \in Requests |-> None]
    /\ hp = [r \in Requests |-> None]
    /\ now = [r \in Requests |-> 0]
    /\ times = [r \in Requests |-> <<>>]
    /\ outcome = [r \in Requests |-> None]
    /\ created = [r \in Requests |-> 0]
    /\ emailed = [r \in Requests |-> 0]
    /\ contact_id = [r \in Requests |-> None]
    /\ email_result = [r \in Requests |-> None]
    /\ response = [r \in Requests |-> None]
    /\ log = [c \in Clients |-> <<>>]

SpecConc == InitConc /\ [][Next]_vars

\* ======================================================================
\* Properties
\* ======================================================================
LogIdx(c) == 1..Len(log[c])
Admitted(c) == {i \in LogIdx(c) : log[c][i].out = "Accepted"}
TimeOf(c, i) == log[c][i].t

\* admitted calls of c with a timestamp in the closed interval [lo, hi]
AdmittedIn(c, lo, hi) == {j \in Admitted(c) : lo <= TimeOf(c, j) /\ TimeOf(c, j) <= hi}

\* C1: for every client, the calls admitted by is_rate_limited whose
\* timestamps lie in one 60-second interval, endpoints included, number at
\* most RATE_LIMIT_PER_MIN (the clock never goes back).
C1_RateLimitNeverExceeded ==
    \A c \in Clients : \A i \in Admitted(c) :
        Cardinality(AdmittedIn(c, TimeOf(c, i), TimeOf(c, i) + WINDOW))
            <= RATE_LIMIT_PER_MIN

\* a client has filled an interval of exactly 60 seconds up to the limit and
\* a further call at the end point of the interval was refused
C1_Witness ==
    \E c \in Clients : \E i, j \in Admitted(c) : \E k \in LogIdx(c) :
        /\ TimeOf(c, j) = TimeOf(c, i) + WINDOW
        /\ Cardinality(AdmittedIn(c, TimeOf(c, i), TimeOf(c, j))) = RATE_LIMIT_PER_MIN
        /\ log[c][k].out = "RateLimited"
        /\ TimeOf(c, k) = TimeOf(c, j)

\* number of occurrences of x in the sequence ts
Occurrences(ts, x) == Cardinality({k \in 1..Len(ts) : ts[k] = x})

\* C2: the read-modify-write of one client's list is atomic: two requests of
\* the same client are never both between line 156 and the return of
\* is_rate_limited, the admitted calls of a window never exceed the limit,
\* and every admitted timestamp still inside the window of the client's last
\* call is in the stored list (none is lost to an overwrite).
C2_GateAtomic ==
    /\ \A r1, r2 \in Requests :
          (r1 # r2 /\ pc[r1] \in GatePcs /\ pc[r2] \in GatePcs)
              => client[r1] # client[r2]
    /\ \A c \in Clients : \A i \in Admitted(c) :
          Cardinality(AdmittedIn(c, TimeOf(c, i) - WINDOW, TimeOf(c, i)))
              <= RATE_LIMIT_PER_MIN
    /\ \A c \in Clients :
          (log[c] # <<>> /\ ~\E r \in Requests : client[r] = c /\ pc[r] \in {"l161", "l163"})
              => \A i \in Admitted(c) :
                    TimeOf(c, i) >= TimeOf(c, Len(log[c])) - WINDOW
                        => Occurrences(Stored(c), TimeOf(c, i))
                              = Cardinality({j \in Admitted(c) : TimeOf(c, j) = TimeOf(c, i)})

\* two requests of one client are in flight together: one is inside
\* is_rate_limited after reading the list, the other waits for the loop
C2_Witness ==
    \E r1, r2 \in Requests :
        /\ r1 # r2
        /\ client[r1] = client[r2]
        /\ pc[r1] = "l160"
        /\ pc[r2] = "queued"
        /\ ~HoneypotTriggered(hp[r2])
        /\ Len(times[r1]) + 1 = RATE_LIMIT_PER_MIN

\* C3: the first RATE_LIMIT_PER_MIN + 1 calls of a client without history,
\* all within 60 seconds and with an empty honeypot: the first
\* RATE_LIMIT_PER_MIN are Accepted, the next one is RateLimited.
C3_BurstOutcome ==
    \A c \in Clients : \A k \in LogIdx(c) :
        (k <= RATE_LIMIT_PER_MIN + 1 /\ TimeOf(c, k) - TimeOf(c, 1) <= WINDOW)
            => log[c][k].out =
                  (IF k <= RATE_LIMIT_PER_MIN THEN "Accepted" ELSE "RateLimited")

\* a client made limit + 1 calls, the last of them exactly 60 seconds after
\* the first
C3_Witness ==
    \E c \in Clients :
        /\ RATE_LIMIT_PER_MIN >= 1
        /\ Len(log[c]) >= RATE_LIMIT_PER_MIN + 1
        /\ TimeOf(c, RATE_LIMIT_PER_MIN + 1) - TimeOf(c, 1) = WINDOW

\* admitted calls whose timestamps the list holds when call i of c returns
\* (the new timestamp of call i itself left aside)
StoredAfter(c, i) == {j \in Admitted(c) : j < i /\ TimeOf(c, j) >= TimeOf(c, i) - WINDOW}
\* those of them that are outside the trailing 60 seconds of call k
ExpiredAt(c, i, k) == {j \in StoredAfter(c, i) : TimeOf(c, j) < TimeOf(c, k) - WINDOW}

\* C4: sliding window: after a RateLimited call, the next call of the client
\* is Accepted exactly when a stored timestamp has left the trailing 60
\* seconds; when exactly one has left, the call after that one is
\* RateLimited again unless a further timestamp has left; with limit 2,
\* calls at 0, 10, 20, 61 give Accepted, Accepted, RateLimited, Accepted.
C4_SlidingWindow ==
    /\ \A c \in Clients : \A i \in LogIdx(c) :
          (log[c][i].out = "RateLimited" /\ i + 1 <= Len(log[c]) /\ RATE_LIMIT_PER_MIN >= 1)
              => /\ (log[c][i + 1].out = "Accepted") <=> (ExpiredAt(c, i, i + 1) # {})
                 /\ (i + 2 <= Len(log[c])
                       /\ Cardinality(ExpiredAt(c, i, i + 1)) = 1
                       /\ ExpiredAt(c, i, i + 2) = ExpiredAt(c, i, i + 1))
                        => log[c][i + 2].out = "RateLimited"
    /\ \A c \in Clients :
          (RATE_LIMIT_PER_MIN = 2 /\ Len(log[c]) >= 4
             /\ TimeOf(c, 1) = 0 /\ TimeOf(c, 2) = 10
             /\ TimeOf(c, 3) = 20 /\ TimeOf(c, 4) = 61)
              => /\ log[c][1].out = "Accepted"
                 /\ log[c][2].out = "Accepted"
                 /\ log[c][3].out = "RateLimited"
                 /\ log[c][4].out = "Accepted"

\* the scenario of the specification has been played by a client
C4_Witness ==
    \E c \in Clients :
        /\ RATE_LIMIT_PER_MIN = 2 /\ Len(log[c]) = 4
        /\ TimeOf(c, 1) = 0 /\ TimeOf(c, 2) = 10
        /\ TimeOf(c, 3) = 20 /\ TimeOf(c, 4) = 61

\* hp is present and has a character that is not white space
NonBlank(h) == h # None /\ \E k \in 1..Len(h) : ~IsSpace(h[k])

\* C5: a submission whose hp is non-empty after trimming gets the Dropped
\* outcome and no step of its request changes request_times (no prune, no
\* append, no new key), so it takes nothing from the client's quota.
C5_HoneypotNoBookkeeping ==
    [][\A r \in Requests :
          (NonBlank(hp[r]) /\ pc'[r] # pc[r])
              => /\ request_times' = request_times
                 /\ log' = log
                 /\ pc[r] = "queued" =>
                       (outcome'[r] = "Dropped" /\ pc'[r] = "done"
                          /\ response'[r] = RespDropped)
                 /\ pc[r] \in {"idle", "queued", "done"}]_vars

\* a filled honeypot was dropped for a client whose key does not exist, while
\* the other client has timestamps stored
C5_Witness ==
    \E r \in Requests :
        /\ pc[r] = "done" /\ outcome[r] = "Dropped" /\ NonBlank(hp[r])
        /\ client[r] \notin DOMAIN request_times
        /\ \E c \in DOMAIN request_times : request_times[c] # <<>>

\* C6: a step changes the stored list of client b only when it is a step of
\* a request of b, and each outcome of b is the function of b's own earlier
\* admitted calls and the clock: Accepted exactly when fewer than the limit
\* of them lie in the trailing 60 seconds.
C6_ClientIsolation ==
    /\ [][\A b \in Clients :
             (Stored(b)' # Stored(b) \/ (b \in DOMAIN request_times') # (b \in DOMAIN request_times))
                 => \E r \in Requests : client[r] = b /\ pc'[r] # pc[r]]_vars
    /\ [](\A b \in Clients : \A i \in LogIdx(b) :
             (log[b][i].out = "Accepted")
                 <=> (Cardinality({j \in Admitted(b) : j < i /\ TimeOf(b, j) >= TimeOf(b, i) - WINDOW})
                         < RATE_LIMIT_PER_MIN))

\* client b was Accepted while client a, already refused, still has its full
\* list inside the window
C6_Witness ==
    \E r \in Requests : \E a \in Clients :
        /\ a # client[r]
        /\ outcome[r] = "Accepted"
        /\ RATE_LIMIT_PER_MIN >= 1
        /\ Len(Stored(a)) >= RATE_LIMIT_PER_MIN
        /\ \E i \in LogIdx(a) : log[a][i].out = "RateLimited"
        /\ \A k \in 1..Len(Stored(a)) :
              Stored(a)[k] >= TimeOf(client[r], Len(log[client[r]])) - WINDOW

\* the calls of c in the closed interval [lo, hi], whatever their outcome
CallsIn(c, lo, hi) == {j \in LogIdx(c) : lo <= TimeOf(c, j) /\ TimeOf(c, j) <= hi}
\* the calls of c in the half-open interval [lo, hi)
CallsInHalfOpen(c, lo, hi) == {j \in LogIdx(c) : lo <= TimeOf(c, j) /\ TimeOf(c, j) < hi}

\* C7 as stated: when no window of 60 seconds holds more than the limit of a
\* client's empty-honeypot submissions, a submission exactly 60 seconds after
\* an earlier one being in the next window, every submission is Accepted.
C7_NoFalseThrottlingOriginal ==
    \A c \in Clients :
        (\A i \in LogIdx(c) :
            Cardinality(CallsInHalfOpen(c, TimeOf(c, i), TimeOf(c, i) + WINDOW))
                <= RATE_LIMIT_PER_MIN)
            => \A i \in LogIdx(c) : log[c][i].out = "Accepted"

\* C7 amended: when no interval of 60 seconds, endpoints included, holds more
\* than the limit of a client's empty-honeypot submissions, every one of
\* them is Accepted.
C7_NoFalseThrottling ==
    \A c \in Clients :
        (\A i \in LogIdx(c) :
            Cardinality(CallsIn(c, TimeOf(c, i), TimeOf(c, i) + WINDOW))
                <= RATE_LIMIT_PER_MIN)
            => \A i \in LogIdx(c) : log[c][i].out = "Accepted"

\* a client made more calls than the limit, one of them 61 seconds after
\* another, and no closed interval of 60 seconds holds more than the limit
C7_Witness ==
    \E c \in Clients :
        /\ RATE_LIMIT_PER_MIN >= 1
        /\ Len(log[c]) > RATE_LIMIT_PER_MIN
        /\ \E i, j \in LogIdx(c) : TimeOf(c, j) - TimeOf(c, i) = WINDOW + 1
        /\ \A i \in LogIdx(c) :
              Cardinality(CallsIn(c, TimeOf(c, i), TimeOf(c, i) + WINDOW))
                  <= RATE_LIMIT_PER_MIN

\* C8: create_document and send_email_notification are never called for a
\* request whose outcome is Dropped or RateLimited (nor before the outcome).
C8_OnlyAcceptedForwarded ==
    \A r \in Requests :
        outcome[r] # "Accepted" => (created[r] = 0 /\ emailed[r] = 0 /\ contact_id[r] = None)

\* a request has been answered rate_limited
C8_Witness ==
    \E r \in Requests :
        pc[r] = "done" /\ outcome[r] = "RateLimited" /\ response[r] = RespRateLimited

\* C9 as stated: for every Accepted submission create_document and
\* send_email_notification are each called exactly once, whatever the other
\* one did.
C9_ExactlyOnceOriginal ==
    \A r \in Requests :
        (pc[r] = "done" /\ outcome[r] = "Accepted")
            => (created[r] = 1 /\ emailed[r] = 1)

\* C9 amended: for every Accepted submission create_document is called
\* exactly once and never again; send_email_notification is called exactly
\* once when create_document returned and not at all when it raised.
C9_ExactlyOnce ==
    \A r \in Requests :
        /\ created[r] <= 1 /\ emailed[r] <= 1
        /\ (pc[r] = "done" /\ outcome[r] = "Accepted")
              => /\ created[r] = 1
                 /\ emailed[r] = (IF contact_id[r] # None THEN 1 ELSE 0)

\* an Accepted request ended after create_document raised
C9_Witness ==
    \E r \in Requests :
        /\ pc[r] = "done" /\ outcome[r] = "Accepted"
        /\ contact_id[r] = None /\ created[r] = 1 /\ response[r] = RespError

\* C10: whenever create_document succeeded for an Accepted submission, the
\* handler answers ok true with the stored id, whatever fails inside
\* send_email_notification.
C10_EmailFailureAbsorbed ==
    \A r \in Requests :
        (pc[r] = "done" /\ outcome[r] = "Accepted" /\ contact_id[r] # None)
            => response[r] = RespStored(contact_id[r])

\* C11: a request is answered HTTP 500 with a detail string exactly when it
\* was Accepted and create_document failed; Dropped and RateLimited requests
\* get HTTP 200.
C11_ServerErrorOnlyOnStorageFailure ==
    \A r \in Requests :
        pc[r] = "done" =>
            /\ (response[r] = RespError)
                  <=> (outcome[r] = "Accepted" /\ created[r] = 1 /\ contact_id[r] = None)
            /\ outcome[r] \in {"Dropped", "RateLimited"} => response[r].status = 200

\* the keys present in the JSON body of a response
BodyKeys(resp) ==
    (IF resp.status = 200 THEN {"ok"} ELSE {"detail"})
    \cup (IF resp.id # None THEN {"id"} ELSE {})
    \cup (IF resp.status = 200 /\ resp.reason # None THEN {"reason"} ELSE {})

\* C12: the response to a Dropped request cannot be told from the response
\* to an Accepted and stored one: same status, same keys in the body, same
\* value of ok.
C12_DroppedLooksStored ==
    \A r \in Requests :
        (pc[r] = "done" /\ outcome[r] = "Dropped")
            => /\ response[r].status = RespStored("id").status
               /\ response[r].ok = RespStored("id").ok
               /\ BodyKeys(response[r]) = BodyKeys(RespStored("id"))

CollaboratorPcs == {"l188", "l109", "l121", "l134"}

\* C13: while an Accepted request is inside create_document or
\* send_email_notification, a waiting request can start its gate evaluation,
\* and the response of a request is ready before its e-mail is attempted.
C13_CollaboratorsDoNotBlockGate ==
    /\ \A r1, r2 \in Requests :
          (pc[r1] \in CollaboratorPcs /\ pc[r2] = "queued") => ENABLED Honeypot(r2)
    /\ \A r \in Requests :
          pc[r] \in {"l109", "l121", "l134"} => response[r] # None

\* no request is between the store of line 160 and the return of the call
GateQuiet == \A r \in Requests : pc[r] \notin {"l161", "l163"}

\* the last call of c was made at the instant of the only call of d, more
\* than 60 seconds after every earlier admitted call of c
FullyExpiredPair(c, d) ==
    /\ c # d
    /\ Len(log[d]) = 1
    /\ Len(log[c]) >= 2
    /\ TimeOf(c, Len(log[c])) = TimeOf(d, 1)
    /\ \A j \in Admitted(c) :
          j < Len(log[c]) => TimeOf(c, j) < TimeOf(c, Len(log[c])) - WINDOW

\* C14: a call made more than 60 seconds after every stored timestamp of a
\* client with history has the outcome, and leaves the stored list, of the
\* same call made at the same instant for a client without history.
C14_FullExpiryIsFreshStart ==
    \A c, d \in Clients :
        (GateQuiet /\ FullyExpiredPair(c, d))
            => /\ log[c][Len(log[c])].out = log[d][1].out
               /\ Stored(c) = Stored(d)
               /\ (c \in DOMAIN request_times) <=> (d \in DOMAIN request_times)

\* a client with an admitted call in its past and a client without history
\* have both called at the same instant, after the first one's window expired
C14_Witness ==
    \E c, d \in Clients :
        /\ GateQuiet
        /\ FullyExpiredPair(c, d)
        /\ \E j \in Admitted(c) : j < Len(log[c])
        /\ RATE_LIMIT_PER_MIN >= 1

\* the timestamps of ts that are at most 60 seconds older than t, in order
KeepRecent(ts, t) ==
    LET Recent(x) == x >= t - WINDOW IN SelectSeq(ts, Recent)

\* C15: when is_rate_limited returns True the list stored for the client is
\* exactly the pruned list, the current time is not appended, and the stored
\* lists only ever hold timestamps of admitted calls.
C15_RejectedNotRecorded ==
    /\ [][\A r \in Requests :
             (outcome[r] = None /\ outcome'[r] = "RateLimited")
                 => /\ Stored(client[r])' = KeepRecent(times[r], now[r])
                    /\ Len(Stored(client[r])') <= Len(times[r])]_vars
    /\ [](\A c \in Clients : \A k \in 1..Len(Stored(c)) :
             \E j \in Admitted(c) : TimeOf(c, j) = Stored(c)[k])

\* a client was refused twice in a row and its list still holds exactly the
\* admitted timestamps
C15_Witness ==
    \E r \in Requests :
        /\ pc[r] = "done" /\ outcome[r] = "RateLimited"
        /\ RATE_LIMIT_PER_MIN >= 1
        /\ Len(Stored(client[r])) = RATE_LIMIT_PER_MIN
        /\ Cardinality({i \in LogIdx(client[r]) : log[client[r]][i].out = "RateLimited"}) >= 2

\* C16: line 160 stores for the client exactly the previously stored
\* timestamps t with t >= now - 60, in order, before the outcome is decided
\* and whatever it is; when the call returns every stored timestamp of the
\* key is >= now - 60, one exactly 60 seconds old included; the entries of
\* the other keys are left alone.
C16_PruneExact ==
    [][\A r \in Requests :
          /\ (pc[r] = "l160" /\ pc'[r] # "l160")
                => /\ pc'[r] = "l161"
                   /\ Stored(client[r])' = KeepRecent(Stored(client[r]), now[r])
                   /\ \A k \in Clients \ {client[r]} :
                         /\ Stored(k)' = Stored(k)
                         /\ (k \in DOMAIN request_times') <=> (k \in DOMAIN request_times)
          /\ (pc[r] \in {"l161", "l163"} /\ outcome'[r] # None)
                => /\ \A k \in 1..Len(Stored(client[r])') :
                         Stored(client[r])'[k] >= now[r] - WINDOW
                   /\ \A k \in 1..Len(times[r]) :
                         times[r][k] >= now[r] - WINDOW
                            => \E m \in 1..Len(Stored(client[r])') :
                                  Stored(client[r])'[m] = times[r][k]]_vars

\* line 160 has just kept a timestamp that is exactly 60 seconds old
C16_Witness ==
    \E r \in Requests :
        /\ pc[r] = "l161"
        /\ times[r] # <<>>
        /\ Stored(client[r]) = times[r]
        /\ times[r][1] = now[r] - WINDOW

\* C17: in every state the list stored for a key has at most
\* RATE_LIMIT_PER_MIN timestamps (the limit being >= 0), stale timestamps
\* that were not pruned yet included.
C17_BoundedWindow ==
    \A c \in DOMAIN request_times :
        RATE_LIMIT_PER_MIN >= 0 => Len(request_times[c]) <= RATE_LIMIT_PER_MIN

\* a full list all of whose timestamps are stale and not pruned yet
C17_Witness ==
    \E c \in DOMAIN request_times :
        /\ RATE_LIMIT_PER_MIN >= 2
        /\ Len(request_times[c]) = RATE_LIMIT_PER_MIN
        /\ \A k \in 1..Len(request_times[c]) : request_times[c][k] < clock - WINDOW

\* C18: the key set of request_times never shrinks, and a client that has
\* reached the rate-limit step has its key, also when its list is empty.
C18_KeysNeverEvicted ==
    /\ [][DOMAIN request_times \subseteq DOMAIN request_times']_vars
    /\ [](\A c \in Clients : log[c] # <<>> => c \in DOMAIN request_times)
    /\ [](\A r \in Requests :
             pc[r] \in {"l160", "l161", "l163"} => client[r] \in DOMAIN request_times)

\* all the timestamps of a key have just been pruned: the list is empty and
\* the key is still there
C18_Witness ==
    \E r \in Requests :
        /\ pc[r] = "l161"
        /\ times[r] # <<>>
        /\ client[r] \in DOMAIN request_times
        /\ request_times[client[r]] = <<>>

\* the admitted timestamps the list of c holds when call k of c starts
StoredBefore(c, k) ==
    {j \in Admitted(c) : j < k /\ TimeOf(c, j) >= TimeOf(c, k - 1) - WINDOW}

\* an Accepted call follows the RateLimited call i at the latest with the
\* first call made more than 60 seconds after it
AcceptedAgain(c, i) ==
    \A k \in LogIdx(c) :
        (k > i /\ TimeOf(c, k) > TimeOf(c, i) + WINDOW)
            => \E m \in (i + 1)..k : log[c][m].out = "Accepted"

\* a call made more than 60 seconds after the oldest stored timestamp is
\* Accepted, whatever was refused in between
OldestExpiredAccepted(c) ==
    \A k \in LogIdx(c) :
        (k >= 2 /\ \E j \in StoredBefore(c, k) : TimeOf(c, k) > TimeOf(c, j) + WINDOW)
            => log[c][k].out = "Accepted"

\* C19 as stated: a RateLimited client is Accepted again once the clock has
\* advanced by more than 60 seconds, and any call made more than 60 seconds
\* after the client's oldest stored timestamp is Accepted.
C19_NoPermanentLockoutOriginal ==
    \A c \in Clients :
        /\ \A i \in LogIdx(c) : log[c][i].out = "RateLimited" => AcceptedAgain(c, i)
        /\ OldestExpiredAccepted(c)

\* C19 amended: the same, for a limit of at least 1.
C19_NoPermanentLockout ==
    \A c \in Clients :
        /\ RATE_LIMIT_PER_MIN >= 1 =>
              \A i \in LogIdx(c) : log[c][i].out = "RateLimited" => AcceptedAgain(c, i)
        /\ OldestExpiredAccepted(c)

\* a client was admitted, refused twice while throttled, and admitted again
\* more than 60 seconds after its oldest stored timestamp
C19_Witness ==
    \E c \in Clients :
        /\ RATE_LIMIT_PER_MIN >= 1
        /\ Len(log[c]) >= 4
        /\ log[c][Len(log[c])].out = "Accepted"
        /\ log[c][Len(log[c]) - 1].out = "RateLimited"
        /\ log[c][Len(log[c]) - 2].out = "RateLimited"
        /\ \E j \in StoredBefore(c, Len(log[c])) :
              TimeOf(c, Len(log[c])) > TimeOf(c, j) + WINDOW

\* C20: no step of create_document or send_email_notification changes
\* request_times, and a request whose collaborators have been called, failed
\* or not, has its admission timestamp as the last one of its client's list:
\* a submission that ends in HTTP 500 keeps its slot.
C20_FailureKeepsSlot ==
    /\ [][\A r \in Requests :
             (pc[r] \in {"l188", "l109", "l121", "l134", "l194"} /\ pc'[r] # pc[r])
                 => request_times' = request_times]_vars
    /\ [](\A r \in Requests :
             (created[r] >= 1 \/ (pc[r] = "done" /\ response[r] = RespError))
                 => /\ outcome[r] = "Accepted"
                    /\ log[client[r]] # <<>>
                    /\ log[client[r]][Len(log[client[r]])].out = "Accepted"
                    /\ Stored(client[r]) # <<>>
                    /\ Stored(client[r])[Len(Stored(client[r]))]
                          = TimeOf(client[r], Len(log[client[r]])))

\* a request answered HTTP 500 after create_document raised, with the list of
\* its client full
C20_Witness ==
    \E r \in Requests :
        /\ pc[r] = "done" /\ response[r] = RespError
        /\ contact_id[r] = None
        /\ RATE_LIMIT_PER_MIN >= 1
        /\ Len(Stored(client[r])) = RATE_LIMIT_PER_MIN
====
